---- MODULE Spec2Model ----
(***************************************************************************)
(* Mitabo: the upload-to-playable-media pipeline of home.py.               *)
(*                                                                         *)
(* Text is modelled as a sequence of one-character strings, so that        *)
(* allowed_file, secure_filename, os.path.splitext and the collision       *)
(* suffix are computed character by character as the code computes them.   *)
(* Paths under the streaming root and URLs are sequences whose first       *)
(* elements are fixed multi-character tokens ("video_", "/hls/", ...).     *)
(*                                                                         *)
(* upload_post is split where it reads or writes what requests share:      *)
(* each test of os.path.exists, f.save, the clock read, the encoder run,   *)
(* the manifest test, the commit. Requests are numbered in arrival order.  *)
(*                                                                         *)
(*   Spec         uploads of one name, to_hls ticked or not, first start   *)
(*   SpecNames    colliding names, to_hls unticked, any start              *)
(*   SpecAll      every file part, any start, every outcome of every step  *)
(*   SpecHls      uploads with to_hls ticked                               *)
(*   SpecFaults   to_hls ticked, f.save and the commit may fail            *)
(*   SpecFields   uploads that differ by title and category                *)
(*   SpecExtensions  accepted filenames that sanitizing changes            *)
(*   SpecRows     views, likes and dislikes of rows among uploads          *)
(*   SpecVotes    like_video and dislike_video, query and commit apart     *)
(*   SpecUsers    register, login, ban_user and promote_user               *)
(*   SpecAllowed  allowed_file on every short filename                     *)
(*   SpecResolve  Video.source_url on every combination of its columns     *)
(***************************************************************************)
EXTENDS Integers, Sequences, FiniteSets, TLC

VARIABLES
    upload_dir,   \* UPLOAD_DIR: stored name -> request whose bytes the file holds
    hls_dir,      \* HLS_DIR: subdirectory name -> what the subdirectory holds
    videos,       \* the videos table, in insertion order (id = position)
    now,          \* the clock as datetime.utcnow() last read it, in ticks
    req,          \* per request: its form, its locals, its position
    likes,        \* the likes table: <<user id, video id>> -> is_like
    users,        \* the users table: id -> row
    arg,          \* argument of a function evaluated on its own
    ret           \* its results so far, <<>> before the first call

vars == <<upload_dir, hls_dir, videos, likes, users, now, req, arg, ret>>

----------------------------------------------------------------------------
(* Bounds *)

MaxReqs == 2          \* requests in flight or finished
MaxClock == 1         \* last clock tick the model reaches
TicksPerSecond == 1   \* clock resolution: ticks in one second
MaxNameLen == 5       \* longest filename given to allowed_file on its own
MaxViews == 1         \* views a row counts up to

Reqs == 1..MaxReqs

----------------------------------------------------------------------------
(* Python values *)

\* None, as a value comparable with every text (a text never holds this token)
None == <<"None">>

\* Python truthiness of an optional string: neither None nor ""
Truthy(s) == s # None /\ s # <<>>

Digit == <<"0", "1", "2", "3", "4", "5", "6", "7", "8", "9">>

\* str(n) / f"{n}" for n >= 0: the decimal digits
RECURSIVE str(_)
str(n) == IF n < 10 THEN <<Digit[n + 1]>> ELSE str(n \div 10) \o <<Digit[(n % 10) + 1]>>

UpperCase == {"A", "B", "C", "D", "E", "F", "G", "H", "I", "J", "K", "L", "M",
              "N", "O", "P", "Q", "R", "S", "T", "U", "V", "W", "X", "Y", "Z"}
LowerOf == [c \in UpperCase |->
    CASE c = "A" -> "a" [] c = "B" -> "b" [] c = "C" -> "c" [] c = "D" -> "d"
      [] c = "E" -> "e" [] c = "F" -> "f" [] c = "G" -> "g" [] c = "H" -> "h"
      [] c = "I" -> "i" [] c = "J" -> "j" [] c = "K" -> "k" [] c = "L" -> "l"
      [] c = "M" -> "m" [] c = "N" -> "n" [] c = "O" -> "o" [] c = "P" -> "p"
      [] c = "Q" -> "q" [] c = "R" -> "r" [] c = "S" -> "s" [] c = "T" -> "t"
      [] c = "U" -> "u" [] c = "V" -> "v" [] c = "W" -> "w" [] c = "X" -> "x"
      [] c = "Y" -> "y" [] c = "Z" -> "z"]

\* str.lower()
lower(s) == [i \in 1..Len(s) |-> IF s[i] \in UpperCase THEN LowerOf[s[i]] ELSE s[i]]

\* index of the last occurrence of character c in s, 0 when there is none
rfind(s, c) ==
    IF \E i \in 1..Len(s) : s[i] = c
    THEN CHOOSE i \in 1..Len(s) : s[i] = c /\ \A j \in (i + 1)..Len(s) : s[j] # c
    ELSE 0

\* s.rsplit(".", 1): one split at the last dot; the whole text when there is none
rsplit(s) ==
    LET i == rfind(s, ".") IN
    IF i = 0 THEN <<s>> ELSE <<SubSeq(s, 1, i - 1), SubSeq(s, i + 1, Len(s))>>

\* str.strip(): whitespace removed at both ends
Whitespace == {" ", "\t", "\n"}

RECURSIVE strip(_)
strip(s) ==
    IF s = <<>> THEN <<>>
    ELSE IF Head(s) \in Whitespace THEN strip(Tail(s))
    ELSE IF s[Len(s)] \in Whitespace THEN strip(SubSeq(s, 1, Len(s) - 1))
    ELSE s

----------------------------------------------------------------------------
(* Constants of home.py *)

CATEGORIES_MAP == {"tendance", "jeux", "musique", "film", "sport"}

ALLOWED_EXTENSIONS == {<<"m", "p", "4">>, <<"w", "e", "b", "m">>, <<"o", "g", "g">>,
                       <<"m", "o", "v">>, <<"m", "4", "v">>}

\* allowed_file without the lowercasing
allowed_file_case_sensitive(filename) ==
    /\ \E i \in 1..Len(filename) : filename[i] = "."
    /\ rsplit(filename)[2] \in ALLOWED_EXTENSIONS

allowed_file(filename) ==
    /\ \E i \in 1..Len(filename) : filename[i] = "."
    /\ lower(rsplit(filename)[2]) \in ALLOWED_EXTENSIONS

----------------------------------------------------------------------------
(* werkzeug.utils.secure_filename, as called at home.py:686 (POSIX host) *)

\* two characters outside ASCII: e-acute (U+00E9, NFKD: "e" + combining accent)
\* and a CJK ideograph (U+65E5, no decomposition)
E_ACUTE == "U+00E9"
CJK == "U+65E5"

LowerCase == {LowerOf[c] : c \in UpperCase}
Digits == {Digit[i] : i \in 1..10}

\* the characters _filename_ascii_strip_re keeps: [A-Za-z0-9_.-]
FilenameAscii == LowerCase \cup UpperCase \cup Digits \cup {"_", ".", "-"}

\* unicodedata.normalize("NFKD", s).encode("ascii", "ignore").decode("ascii")
RECURSIVE nfkd_ascii(_)
nfkd_ascii(s) ==
    IF s = <<>> THEN <<>>
    ELSE (IF Head(s) = E_ACUTE THEN <<"e">>
          ELSE IF Head(s) = CJK THEN <<>>
          ELSE <<Head(s)>>) \o nfkd_ascii(Tail(s))

\* s.replace(os.sep, " ")
replace_sep(s) == [i \in 1..Len(s) |-> IF s[i] = "/" THEN " " ELSE s[i]]

\* "_".join(s.split()): whitespace runs become one "_", none at either end
RECURSIVE join_words(_)
join_words(s) ==
    IF s = <<>> THEN <<>>
    ELSE IF Head(s) = " " THEN join_words(Tail(s))
    ELSE <<Head(s)>>
         \o (IF Len(s) > 1 /\ s[2] = " " /\ \E j \in 2..Len(s) : s[j] # " "
             THEN <<"_">> ELSE <<>>)
         \o join_words(Tail(s))

\* _filename_ascii_strip_re.sub("", s)
ascii_strip(s) == SelectSeq(s, LAMBDA c : c \in FilenameAscii)

\* s.strip("._")
RECURSIVE strip_dots(_)
strip_dots(s) ==
    IF s = <<>> THEN <<>>
    ELSE IF Head(s) \in {".", "_"} THEN strip_dots(Tail(s))
    ELSE IF s[Len(s)] \in {".", "_"} THEN strip_dots(SubSeq(s, 1, Len(s) - 1))
    ELSE s

secure_filename(filename) ==
    strip_dots(ascii_strip(join_words(replace_sep(nfkd_ascii(filename)))))

----------------------------------------------------------------------------
(* os.path.splitext, as called at home.py:687 *)

\* the extension starts at the last dot of the last path component, unless only
\* dots precede it there
splitext(p) ==
    LET sepIndex == rfind(p, "/")
        dotIndex == rfind(p, ".")
    IN  IF dotIndex > sepIndex /\ \E k \in (sepIndex + 1)..(dotIndex - 1) : p[k] # "."
        THEN <<SubSeq(p, 1, dotIndex - 1), SubSeq(p, dotIndex, Len(p))>>
        ELSE <<p, <<>>>>

\* the suffix counted from 0 instead of 1
suffixed_from_zero(base, counter, ext) == base \o <<"-">> \o str(counter - 1) \o ext

\* f"{base}-{counter}{ext}"
suffixed(base, counter, ext) == base \o <<"-">> \o str(counter) \o ext

----------------------------------------------------------------------------
(* Video.source_url and the two read routes it names *)

\* the path converter's quoting in url_for: unreserved characters and the
\* converter's safe set stay, the rest is percent-encoded as UTF-8
RECURSIVE url_quote(_)
url_quote(s) ==
    IF s = <<>> THEN <<>>
    ELSE (IF Head(s) = " " THEN <<"%", "2", "0">>
          ELSE IF Head(s) = E_ACUTE THEN <<"%", "C", "3", "%", "A", "9">>
          ELSE IF Head(s) = CJK THEN <<"%", "E", "6", "%", "9", "7", "%", "A", "5">>
          ELSE <<Head(s)>>) \o url_quote(Tail(s))

\* url_for("hls", filename=..., _external=False): route /hls/<path:filename>
url_for_hls(filename) == <<"/hls/">> \o url_quote(filename)

\* url_for("media", filename=..., _external=False): route /media/<path:filename>
url_for_media(filename) == <<"/media/">> \o url_quote(filename)

\* the path converter's unquoting of the rest of the URL when a route matches
RECURSIVE url_unquote(_)
url_unquote(s) ==
    IF s = <<>> THEN <<>>
    ELSE IF Len(s) >= 3 /\ SubSeq(s, 1, 3) = <<"%", "2", "0">>
         THEN <<" ">> \o url_unquote(SubSeq(s, 4, Len(s)))
    ELSE IF Len(s) >= 6 /\ SubSeq(s, 1, 6) = <<"%", "C", "3", "%", "A", "9">>
         THEN <<E_ACUTE>> \o url_unquote(SubSeq(s, 7, Len(s)))
    ELSE IF Len(s) >= 9 /\ SubSeq(s, 1, 9) = <<"%", "E", "6", "%", "9", "7", "%", "A", "5">>
         THEN <<CJK>> \o url_unquote(SubSeq(s, 10, Len(s)))
    ELSE <<Head(s)>> \o url_unquote(Tail(s))

\* source_url that gives the manifest's URL on the first read only
source_url_first_read_only(v) ==
    IF Truthy(v.hls_manifest) /\ ret = <<>> THEN url_for_hls(v.hls_manifest)
    ELSE IF Truthy(v.filename) THEN url_for_media(v.filename)
    ELSE IF Truthy(v.external_url) THEN v.external_url
    ELSE <<>>

\* source_url with the first two tests swapped: the raw file wins over the manifest
source_url_file_first(v) ==
    IF Truthy(v.filename) THEN url_for_media(v.filename)
    ELSE IF Truthy(v.hls_manifest) THEN url_for_hls(v.hls_manifest)
    ELSE IF Truthy(v.external_url) THEN v.external_url
    ELSE <<>>

source_url(v) ==
    IF Truthy(v.hls_manifest) THEN url_for_hls(v.hls_manifest)
    ELSE IF Truthy(v.filename) THEN url_for_media(v.filename)
    ELSE IF Truthy(v.external_url) THEN v.external_url
    ELSE <<>>

----------------------------------------------------------------------------
(* State after construction: init_db has seeded the demo video *)

NoFile == [present |-> FALSE, filename |-> <<>>]

\* request.form.get(name) of a field the form does not carry: a text field, and a
\* field whose values are identifiers
NoField == [present |-> FALSE, value |-> <<>>]
NoChoice == [present |-> FALSE, value |-> ""]

\* the demo video of init_db: an external URL, no stored file, no manifest
DemoVideo ==
    [id |-> 1, title |-> <<"Big Buck Bunny - Demo">>, category |-> "film",
     filename |-> None, hls_manifest |-> None,
     external_url |-> <<"https://commondatastorage.googleapis.com/gtv-videos-bucket/sample/BigBuckBunny.mp4">>,
     views |-> 0, likes |-> 0, dislikes |-> 0,
     by |-> 0]

\* the demo user of init_db (lines 212-215); is_admin takes the column default
DemoUser == [email |-> "demo@mitabo.dev", username |-> <<"demo">>, is_admin |-> FALSE]

\* a row of the users table as another database file holds it
StoredUser(email, is_admin) == [email |-> email, username |-> <<email>>, is_admin |-> is_admin]

\* locals of upload_post before the request arrives
IdleRequest ==
    [pc |-> "idle", file |-> NoFile, to_hls |-> FALSE,
     form_title |-> NoField, form_category |-> NoChoice,
     title |-> None, category |-> "",
     filename |-> None, base |-> None, ext |-> None, counter |-> 0, final |-> None,
     v |-> None, target_dir |-> None,
     flashes |-> <<>>, response |-> None,
     \* history, not read by any action
     probes |-> 0, first_seen |-> {}, nth |-> 0, overwrote |-> FALSE, undisturbed |-> FALSE,
     encoder_found |-> FALSE, encoder_runs |-> 0, transcode_failed |-> FALSE,
     save_failed |-> FALSE, commit_failed |-> FALSE,
     video_id |-> 0]

\* what UPLOAD_DIR holds when the application starts (line 42 keeps an existing
\* directory): nothing, or a file stored by an upload of "a-1.mp4" in an earlier run
EarlierUploads == {{}, {<<"a", "-", "1", ".", "m", "p", "4">>}}

\* the row upload_post committed for a file stored in an earlier run
EarlierVideo(id, name) ==
    [id |-> id, title |-> <<"S", "a", "n", "s", " ", "t", "i", "t", "r", "e">>,
     category |-> "tendance",
     filename |-> name, hls_manifest |-> None, external_url |-> None,
     views |-> 0, likes |-> 0, dislikes |-> 0,
     by |-> 0]

ProgramInit(earlier) ==
    /\ \E names \in earlier :
         /\ upload_dir = [n \in names |-> 0]
         /\ videos = IF names = {} THEN <<DemoVideo>>
                     ELSE <<DemoVideo, EarlierVideo(2, CHOOSE n \in names : TRUE)>>
    /\ hls_dir = <<>>
    /\ likes = <<>>
    /\ users = [id \in {1} |-> DemoUser]
    /\ now = 0
    /\ req = [r \in Reqs |-> IdleRequest]

\* first start: UPLOAD_DIR is created empty
InitFresh ==
    /\ ProgramInit({{}})
    /\ arg = None
    /\ ret = <<>>

\* any start
Init ==
    /\ ProgramInit(EarlierUploads)
    /\ arg = None
    /\ ret = <<>>

----------------------------------------------------------------------------
(* The upload form as submitted *)

\* filenames a client submits with the file part
UploadNames ==
    { <<>>,                                  \* empty filename
      <<"a", ".", "e", "x", "e">>,           \* extension outside the allow-list
      <<"a", ".", "m", "p", "4">>,
      <<"/", "a", ".", "m", "p", "4">> }     \* sanitized to a.mp4

FileInputs == {NoFile} \cup {[present |-> TRUE, filename |-> n] : n \in UploadNames}

\* a video file under an allowed name
VideoPart == [present |-> TRUE, filename |-> <<"a", ".", "m", "p", "4">>]

\* titles a client submits: none, empty, whitespace only, padded
TitleInputs ==
    {NoField} \cup {[present |-> TRUE, value |-> t] :
                       t \in {<<>>, <<" ">>, <<"\t", " ">>, <<" ", "a", " ">>}}

\* categories a client submits: none, empty, one of CATEGORIES, the same in
\* another case, one unknown
CategoryInputs ==
    {NoChoice} \cup {[present |-> TRUE, value |-> c] :
                        c \in {"", "jeux", "Jeux", "autre"}}

\* a submitted form that leaves title and category out: the file part and whether
\* the to_hls box is ticked
Forms == [file : FileInputs, to_hls : BOOLEAN, title : {NoField}, category : {NoChoice}]

\* the forms that carry a video file and nothing else but, maybe, to_hls
AcceptedForms == {f \in Forms : f.file = VideoPart}

\* the forms that carry a video file and a title or a category, to_hls unticked
FieldForms ==
    [file : {VideoPart}, to_hls : {FALSE}, title : TitleInputs, category : {NoChoice}]
    \cup [file : {VideoPart}, to_hls : {FALSE},
          title : {[present |-> TRUE, value |-> <<" ", "a", " ">>]},
          category : CategoryInputs]

\* the forms that leave to_hls unticked
PlainForms == {f \in Forms : ~f.to_hls}

\* the forms whose file, when accepted, is named a.mp4
SingleNameForms == {f \in Forms : f.file.filename # <<"/", "a", ".", "m", "p", "4">>}

MSG_NO_FILE == "Aucun fichier recu"
MSG_BAD_EXTENSION == "Extension non supportee"
MSG_TRANSCODE_FAILED == "Transcodage HLS echoue - lecture MP4 directe utilisee."
MSG_UPLOAD_ERROR == "Erreur lors de l'upload: "

SANS_TITRE == <<"S", "a", "n", "s", " ", "t", "i", "t", "r", "e">>

REDIRECT_UPLOAD_FORM == <<"redirect", "upload_form">>
redirect_watch(video_id) == <<"redirect", "watch", video_id>>

----------------------------------------------------------------------------
(* upload_post, home.py:668-724, one action per access to shared state *)

\* the two checks in the other order
rejection_extension_first(f) ==
    IF f.present /\ ~allowed_file(f.filename) THEN MSG_BAD_EXTENSION
    ELSE IF ~f.present \/ f.filename = <<>> THEN MSG_NO_FILE
    ELSE ""

\* lines 679-684: the message of the check that rejects the file part, "" when
\* both checks pass; "not f" holds for a missing part and for an empty filename
rejection(f) ==
    IF ~f.present \/ f.filename = <<>> THEN MSG_NO_FILE
    ELSE IF ~allowed_file(f.filename) THEN MSG_BAD_EXTENSION
    ELSE ""

\* line 673: (request.form.get("title") or "Sans titre").strip()
upload_title(field) ==
    strip(IF field.present /\ field.value # <<>> THEN field.value ELSE SANS_TITRE)

\* line 675: request.form.get("category") or "tendance"
upload_category(field) ==
    IF field.present /\ field.value # "" THEN field.value ELSE "tendance"

\* line 700 without the membership test
video_category_unchecked(category) == category

\* line 700: category if category in CATEGORIES_MAP else "tendance"
video_category(category) ==
    IF category \in CATEGORIES_MAP THEN category ELSE "tendance"

\* lines 672-677: the form as read into the locals of upload_post
read_form(r, form) ==
    [req EXCEPT ![r].file = form.file, ![r].to_hls = form.to_hls,
                ![r].form_title = form.title, ![r].form_category = form.category,
                ![r].title = upload_title(form.title),
                ![r].category = upload_category(form.category)]

\* lines 672-689: read the form, validate, sanitize, split, start the name loop
upload_post_begin(r, forms) ==
    /\ req[r].pc = "idle"
    /\ \A q \in Reqs : q < r => req[q].pc # "idle"
    /\ \E form \in forms :
         IF rejection(form.file) # ""
         THEN req' = [read_form(r, form) EXCEPT
                                 ![r].pc = "done",
                                 ![r].flashes = Append(@, rejection(form.file)),
                                 ![r].response = REDIRECT_UPLOAD_FORM]
         ELSE LET filename == secure_filename(form.file.filename)
                  parts == splitext(filename)
              IN  req' = [read_form(r, form) EXCEPT
                                     ![r].pc = "probe",
                                     ![r].filename = filename,
                                     ![r].base = parts[1], ![r].ext = parts[2],
                                     ![r].counter = 1, ![r].final = filename]
    /\ UNCHANGED <<upload_dir, hls_dir, videos, likes, users, now, arg, ret>>

\* the test made against HLS_DIR instead of UPLOAD_DIR
exists_in_hls_dir(final) == final \in DOMAIN hls_dir

\* line 690: os.path.exists(os.path.join(UPLOAD_DIR, final))
exists_in_upload_dir(final) == final \in DOMAIN upload_dir

\* the requests whose file is in UPLOAD_DIR
Saved == {q \in Reqs : req[q].pc \in {"hls_check", "encode", "manifest", "synthesize", "commit"}
                        \/ (req[q].pc = "done" /\ req[q].filename # None
                                               /\ ~req[q].save_failed)}

\* history: what a request's first test of the while condition saw
first_probe(r) ==
    [req EXCEPT ![r].probes = 1,
                ![r].first_seen = DOMAIN upload_dir,
                ![r].nth = 1 + Cardinality({q \in Saved : req[q].filename = req[r].filename})]

\* lines 690-692: one test of the while condition, and the body when it holds
upload_post_probe(r) ==
    /\ req[r].pc = "probe"
    /\ LET seen == IF req[r].probes = 0 THEN first_probe(r)
                   ELSE [req EXCEPT ![r].probes = @ + 1]
       IN  IF exists_in_upload_dir(req[r].final)
           THEN req' = [seen EXCEPT ![r].final = suffixed(req[r].base, req[r].counter, req[r].ext),
                                    ![r].counter = @ + 1]
           ELSE req' = [seen EXCEPT ![r].pc = "save"]
    /\ UNCHANGED <<upload_dir, hls_dir, videos, likes, users, now, arg, ret>>

\* lines 694-706 with the row inserted as soon as the file is stored
upload_post_save_commits(r) ==
    /\ req[r].pc = "save"
    /\ upload_dir' = [n \in DOMAIN upload_dir \cup {req[r].final} |->
                        IF n = req[r].final THEN r ELSE upload_dir[n]]
    /\ LET v == [id |-> 0, title |-> req[r].title,
                 category |-> video_category(req[r].category),
                 filename |-> req[r].final, hls_manifest |-> None,
                 external_url |-> None,
                 views |-> 0, likes |-> 0, dislikes |-> 0,
                 by |-> r]
       IN  /\ req' = [req EXCEPT ![r].pc = "hls_check", ![r].v = v]
           /\ videos' = Append(videos, [v EXCEPT !.id = Len(videos) + 1])
    /\ UNCHANGED <<hls_dir, likes, users, now, arg, ret>>

\* lines 694-706: f.save(file_path) creates or truncates the file; build the record
upload_post_save(r) ==
    /\ req[r].pc = "save"
    /\ upload_dir' = [n \in DOMAIN upload_dir \cup {req[r].final} |->
                        IF n = req[r].final THEN r ELSE upload_dir[n]]
    /\ req' = [req EXCEPT ![r].pc = "hls_check",
                          ![r].v = [id |-> 0, title |-> req[r].title,
                                    category |-> video_category(req[r].category),
                                    filename |-> req[r].final, hls_manifest |-> None,
                                    external_url |-> None,
                                    views |-> 0, likes |-> 0, dislikes |-> 0,
                                    by |-> r],
                          ![r].overwrote = exists_in_upload_dir(req[r].final),
                          ![r].undisturbed = (DOMAIN upload_dir = req[r].first_seen)]
    /\ UNCHANGED <<hls_dir, videos, likes, users, now, arg, ret>>

\* f"{datetime.utcnow().timestamp():.0f}": the clock rounded to whole seconds,
\* a half to the even second
timestamp_0f(ticks) ==
    LET q == ticks \div TicksPerSecond
        m == ticks % TicksPerSecond
    IN  IF 2 * m < TicksPerSecond THEN q
        ELSE IF 2 * m > TicksPerSecond THEN q + 1
        ELSE IF q % 2 = 0 THEN q ELSE q + 1

\* line 709: os.path.join(HLS_DIR, f"video_{...:.0f}"), as the name under HLS_DIR
target_dir_name(ticks) == <<"video_">> \o str(timestamp_0f(ticks))

\* line 708 without ffmpeg_exists(): transcoding is attempted whenever to_hls is set
upload_post_hls_check_unguarded(r) ==
    /\ req[r].pc = "hls_check"
    /\ IF ~req[r].to_hls
       THEN /\ req' = [req EXCEPT ![r].pc = "commit"]
            /\ now' = now
       ELSE \E t \in now..MaxClock :
              /\ now' = t
              /\ req' = [req EXCEPT ![r].pc = "encode", ![r].target_dir = target_dir_name(t)]
    /\ UNCHANGED <<upload_dir, hls_dir, videos, likes, users, arg, ret>>

\* lines 708-709: to_hls and ffmpeg_exists(), where shutil.which finds the encoder
\* or not; when both hold, datetime.utcnow() reads a clock that has not gone back
upload_post_hls_check(r) ==
    /\ req[r].pc = "hls_check"
    /\ IF ~req[r].to_hls
       THEN /\ req' = [req EXCEPT ![r].pc = "commit"]
            /\ now' = now
       ELSE \E found \in BOOLEAN, t \in now..MaxClock :
              IF found
              THEN /\ now' = t
                   /\ req' = [req EXCEPT ![r].pc = "encode",
                                         ![r].encoder_found = TRUE,
                                         ![r].target_dir = target_dir_name(t)]
              ELSE /\ now' = now
                   /\ req' = [req EXCEPT ![r].pc = "commit"]
    /\ UNCHANGED <<upload_dir, hls_dir, videos, likes, users, arg, ret>>

----------------------------------------------------------------------------
(* transcode_to_hls, home.py:174-202, as called at line 711 *)

\* a manifest is its lines; a line is a tag followed by its attributes, or a URI
\* master.m3u8 as the encoder writes it under -master_pl_name
ENCODER_MASTER ==
    << <<"#EXTM3U">>, <<"#EXT-X-VERSION:", "3">>,
       <<"#EXT-X-STREAM-INF:", "as the encoder measures the rendition">>,
       <<"v0/index.m3u8">>,
       <<"#EXT-X-STREAM-INF:", "as the encoder measures the rendition">>,
       <<"v1/index.m3u8">> >>

\* lines 198-200: master.m3u8 as transcode_to_hls writes it
SYNTHESIZED_MASTER ==
    << <<"#EXTM3U">>, <<"#EXT-X-VERSION:", "3">>,
       <<"#EXT-X-STREAM-INF:", "BANDWIDTH=800000,RESOLUTION=640x360">>,
       <<"v0/index.m3u8">>,
       <<"#EXT-X-STREAM-INF:", "BANDWIDTH=2500000,RESOLUTION=1280x720">>,
       <<"v1/index.m3u8">> >>

\* line 175: os.makedirs(target_dir, exist_ok=True); a new directory holds no
\* master.m3u8 and no rendition (renditions: the request whose encoder wrote the
\* ones the directory holds, 0 standing for an upload of an earlier run)
EmptyDir == [master |-> None, renditions |-> {}]

makedirs(dirs, d) ==
    [n \in DOMAIN dirs \cup {d} |-> IF n \in DOMAIN dirs THEN dirs[n] ELSE EmptyDir]

\* the except clause missing: the exception reaches the handler of lines 721-724,
\* which reports the upload as failed and commits nothing
transcode_exception_aborts(r) ==
    [req EXCEPT ![r].pc = "done",
                ![r].flashes = Append(@, "Erreur lors de l'upload"),
                ![r].transcode_failed = TRUE,
                ![r].response = REDIRECT_UPLOAD_FORM]

\* the except clause without its flash
transcode_exception_silent(r) ==
    [req EXCEPT ![r].pc = "commit",
                ![r].transcode_failed = TRUE]

\* lines 713-715: the except clause of upload_post around transcode_to_hls
transcode_exception(r) ==
    [req EXCEPT ![r].pc = "commit",
                ![r].flashes = Append(@, MSG_TRANSCODE_FAILED),
                ![r].transcode_failed = TRUE]

\* line 192: subprocess.run cannot start the encoder (removed since the test of
\* line 708): FileNotFoundError, which line 193 does not catch
transcode_encoder_missing(r) ==
    /\ req[r].pc = "encode"
    /\ hls_dir' = makedirs(hls_dir, req[r].target_dir)
    /\ req' = transcode_exception(r)
    /\ UNCHANGED <<upload_dir, videos, likes, users, now, arg, ret>>

\* lines 192-200 with the master manifest written after a non-zero exit as well
transcode_encoder_fails_synthesizes(r) ==
    /\ req[r].pc = "encode"
    /\ hls_dir' = [makedirs(hls_dir, req[r].target_dir) EXCEPT
                      ![req[r].target_dir].master = SYNTHESIZED_MASTER]
    /\ req' = [transcode_exception(r) EXCEPT ![r].encoder_runs = @ + 1]
    /\ UNCHANGED <<upload_dir, videos, likes, users, now, arg, ret>>

\* lines 192-195: the encoder exits non-zero; CalledProcessError is printed and
\* raised again
transcode_encoder_fails(r) ==
    /\ req[r].pc = "encode"
    /\ hls_dir' = makedirs(hls_dir, req[r].target_dir)
    /\ req' = [transcode_exception(r) EXCEPT ![r].encoder_runs = @ + 1]
    /\ UNCHANGED <<upload_dir, videos, likes, users, now, arg, ret>>

\* line 192: the encoder exits zero: the renditions are written (-y overwrites),
\* the master manifest is written or, with some encoder builds, is not
transcode_encoder_exits_zero(r) ==
    /\ req[r].pc = "encode"
    /\ \E wrote_master \in BOOLEAN :
         hls_dir' = [makedirs(hls_dir, req[r].target_dir) EXCEPT
                        ![req[r].target_dir].renditions = {r},
                        ![req[r].target_dir].master = IF wrote_master THEN ENCODER_MASTER ELSE @]
    /\ req' = [req EXCEPT ![r].pc = "manifest",
                          ![r].encoder_runs = @ + 1]
    /\ UNCHANGED <<upload_dir, videos, likes, users, now, arg, ret>>

\* lines 201-202 with the path taken relative to target_dir
rel_master_in_target_dir(target_dir) == <<"master.m3u8">>

\* lines 201-202: os.path.relpath(master_path, HLS_DIR).replace("\\", "/")
rel_master(target_dir) == target_dir \o <<"/", "master.m3u8">>

\* lines 734-740: send_from_directory(HLS_DIR, filename) for a path of the form
\* <subdirectory>/master.m3u8: the manifest's lines, or None where hls answers
\* 404 (no such directory, no such file, or a path that leaves HLS_DIR)
hls(dirs, filename) ==
    LET sepIndex == rfind(filename, "/")
        subdir == SubSeq(filename, 1, sepIndex - 1)
        name == SubSeq(filename, sepIndex + 1, Len(filename))
    IN  IF sepIndex > 1 /\ subdir \in DOMAIN dirs /\ name = <<"master.m3u8">>
        THEN dirs[subdir].master
        ELSE None

\* lines 201-202 and 712: transcode_to_hls returns the master manifest's path
\* relative to HLS_DIR, which upload_post assigns to v.hls_manifest
transcode_return(r) ==
    [req EXCEPT ![r].pc = "commit",
                ![r].v.hls_manifest = rel_master(req[r].target_dir)]

\* line 196: os.path.exists(master_path); the function returns when it holds
transcode_finish(r) ==
    /\ req[r].pc = "manifest"
    /\ req' = IF hls_dir[req[r].target_dir].master = None
              THEN [req EXCEPT ![r].pc = "synthesize"]
              ELSE transcode_return(r)
    /\ UNCHANGED <<upload_dir, hls_dir, videos, likes, users, now, arg, ret>>

\* lines 197-202: open(master_path, "w") creates or truncates master.m3u8, the
\* three writes fill it, the function returns
transcode_synthesize(r) ==
    /\ req[r].pc = "synthesize"
    /\ hls_dir' = [hls_dir EXCEPT ![req[r].target_dir].master = SYNTHESIZED_MASTER]
    /\ req' = transcode_return(r)
    /\ UNCHANGED <<upload_dir, videos, likes, users, now, arg, ret>>

\* lines 717-720: db.session.add(v), commit (the id is assigned), redirect to watch
upload_post_commit(r) ==
    /\ req[r].pc = "commit"
    /\ LET id == Len(videos) + 1 IN
         /\ videos' = Append(videos, [req[r].v EXCEPT !.id = id])
         /\ req' = [req EXCEPT ![r].pc = "done",
                               ![r].video_id = id,
                               ![r].response = redirect_watch(id)]
    /\ UNCHANGED <<upload_dir, hls_dir, likes, users, now, arg, ret>>

----------------------------------------------------------------------------
(* upload_post when a step raises: the except clause of lines 721-724 *)

\* lines 721-724 with the exception swallowed: the request goes on to line 697
upload_exception_ignored(r) ==
    [req EXCEPT ![r].pc = "hls_check",
                ![r].v = [id |-> 0, title |-> req[r].title,
                          category |-> video_category(req[r].category),
                          filename |-> req[r].final, hls_manifest |-> None,
                          external_url |-> None,
                          views |-> 0, likes |-> 0, dislikes |-> 0,
                          by |-> r]]

\* lines 721-724: print, flash the error, redirect to the upload form
upload_exception(r) ==
    [req EXCEPT ![r].pc = "done",
                ![r].flashes = Append(@, MSG_UPLOAD_ERROR),
                ![r].response = REDIRECT_UPLOAD_FORM]

\* line 695: f.save raises OSError, before the file is opened (nothing is
\* written) or during the copy (the file is created or truncated, and holds
\* a part of the upload: -r in upload_dir)
upload_post_save_fails(r) ==
    /\ req[r].pc = "save"
    /\ \E opened \in BOOLEAN :
         upload_dir' = IF opened
                       THEN [n \in DOMAIN upload_dir \cup {req[r].final} |->
                               IF n = req[r].final THEN 0 - r ELSE upload_dir[n]]
                       ELSE upload_dir
    /\ req' = [upload_exception(r) EXCEPT ![r].save_failed = TRUE]
    /\ UNCHANGED <<hls_dir, videos, likes, users, now, arg, ret>>

\* line 718 with the files of the upload removed when the commit fails
upload_post_commit_fails_cleans_up(r) ==
    /\ req[r].pc = "commit"
    /\ req' = [upload_exception(r) EXCEPT ![r].commit_failed = TRUE]
    /\ upload_dir' = [n \in DOMAIN upload_dir \ {req[r].final} |-> upload_dir[n]]
    /\ UNCHANGED <<hls_dir, videos, likes, users, now, arg, ret>>

\* line 718: db.session.commit() raises; the transaction is rolled back and the
\* session is discarded when the request ends, so no row is inserted
upload_post_commit_fails(r) ==
    /\ req[r].pc = "commit"
    /\ req' = [upload_exception(r) EXCEPT ![r].commit_failed = TRUE]
    /\ UNCHANGED <<upload_dir, hls_dir, videos, likes, users, now, arg, ret>>

Faults ==
    \/ \E r \in Reqs : upload_post_save_fails(r)
    \/ \E r \in Reqs : upload_post_commit_fails(r)

\* the steps of upload_post after the form is read, transcoding apart
Store ==
    \/ \E r \in Reqs : upload_post_probe(r)
    \/ \E r \in Reqs : upload_post_save(r)
    \/ \E r \in Reqs : upload_post_hls_check(r)
    \/ \E r \in Reqs : upload_post_commit(r)

Transcode ==
    \/ \E r \in Reqs : transcode_encoder_missing(r)
    \/ \E r \in Reqs : transcode_encoder_fails(r)
    \/ \E r \in Reqs : transcode_encoder_exits_zero(r)
    \/ \E r \in Reqs : transcode_finish(r)
    \/ \E r \in Reqs : transcode_synthesize(r)

\* uploads of one name, with or without to_hls, after a first start
Next ==
    \/ \E r \in Reqs : upload_post_begin(r, SingleNameForms)
    \/ Store
    \/ Transcode

Spec == InitFresh /\ [][Next]_vars

\* uploads of colliding names into a directory that may hold earlier files,
\* to_hls unticked
NextNames ==
    \/ \E r \in Reqs : upload_post_begin(r, PlainForms)
    \/ Store

SpecNames == Init /\ [][NextNames]_vars

\* every file part with and without to_hls, any start, every outcome of every step
NextAll ==
    \/ \E r \in Reqs : upload_post_begin(r, Forms)
    \/ Store
    \/ Transcode
    \/ Faults

SpecAll == Init /\ [][NextAll]_vars

\* uploads of a video file with to_hls ticked and an encoder that, when found,
\* exits zero; f.save and the commit may fail
NextFaults ==
    \/ \E r \in Reqs : upload_post_begin(r, {f \in AcceptedForms : f.to_hls})
    \/ Store
    \/ \E r \in Reqs : transcode_encoder_exits_zero(r)
    \/ \E r \in Reqs : transcode_finish(r)
    \/ \E r \in Reqs : transcode_synthesize(r)
    \/ Faults

SpecFaults == InitFresh /\ [][NextFaults]_vars

\* uploads of a video file with to_hls ticked
NextHls ==
    \/ \E r \in Reqs : upload_post_begin(r, {f \in AcceptedForms : f.to_hls})
    \/ Store
    \/ Transcode

SpecHls == InitFresh /\ [][NextHls]_vars

\* uploads that differ by title and category, to_hls unticked
NextFields ==
    \/ \E r \in Reqs : upload_post_begin(r, FieldForms)
    \/ Store

SpecFields == InitFresh /\ [][NextFields]_vars

\* filenames that allowed_file accepts: a plain one, one with its extension in
\* upper case, one that is only an extension, one whose stem is outside ASCII
ExtensionNames ==
    { <<"a", ".", "m", "p", "4">>,
      <<"a", ".", "M", "P", "4">>,
      <<".", "m", "p", "4">>,
      <<CJK, ".", "m", "p", "4">> }

\* the forms that carry a file under one of these names, to_hls unticked
ExtensionForms ==
    [file : {[present |-> TRUE, filename |-> n] : n \in ExtensionNames},
     to_hls : {FALSE}, title : {NoField}, category : {NoChoice}]

\* uploads of files that pass the extension test, to_hls unticked
NextExtensions ==
    \/ \E r \in Reqs : upload_post_begin(r, ExtensionForms)
    \/ Store

SpecExtensions == InitFresh /\ [][NextExtensions]_vars

----------------------------------------------------------------------------
(* The requests that write a row of videos after its insertion: watch,      *)
(* like_video and dislike_video, each as one transaction                    *)

\* the users who send them: the demo user of init_db and one more
Users == {1, 2}

\* the video ids that watch is sent: the second and the third row of the table
VideoIdInputs == {2, 3}

\* the video id that like_video and dislike_video are sent: the second row
LikedIdInputs == {2}

\* Python's x or d for a number that is not None
or_else(x, d) == IF x # 0 THEN x ELSE d

\* max((x or 1) - 1, 0)
decremented(x) == IF or_else(x, 1) - 1 > 0 THEN or_else(x, 1) - 1 ELSE 0

\* watch with the row's manifest cleared when it counts the view
watch_clears_manifest(video_id) ==
    /\ video_id \in DOMAIN videos
    /\ videos[video_id].views < MaxViews
    /\ videos' = [videos EXCEPT ![video_id].views = or_else(@, 0) + 1,
                                ![video_id].hls_manifest = None]
    /\ UNCHANGED <<upload_dir, hls_dir, likes, users, now, req, arg, ret>>

\* lines 611-616: get_or_404, v.views = (v.views or 0) + 1, commit; the rest of
\* watch reads
watch(video_id) ==
    /\ video_id \in DOMAIN videos
    /\ videos[video_id].views < MaxViews
    /\ videos' = [videos EXCEPT ![video_id].views = or_else(@, 0) + 1]
    /\ UNCHANGED <<upload_dir, hls_dir, likes, users, now, req, arg, ret>>

\* the likes table without the row of <<user, video_id>>
likes_without(user, video_id) ==
    [k \in DOMAIN likes \ {<<user, video_id>>} |-> likes[k]]

\* the likes table with the row of <<user, video_id>> set to is_like
likes_with(user, video_id, is_like) ==
    [k \in DOMAIN likes \cup {<<user, video_id>>} |->
        IF k = <<user, video_id>> THEN is_like ELSE likes[k]]

\* lines 869-891: a like is taken back, a dislike is turned into a like, or a
\* like is added; the counters of the row follow
like_video(user, video_id) ==
    /\ video_id \in DOMAIN videos
    /\ IF <<user, video_id>> \in DOMAIN likes
       THEN IF likes[<<user, video_id>>]
            THEN /\ likes' = likes_without(user, video_id)
                 /\ videos' = [videos EXCEPT ![video_id].likes = decremented(@)]
            ELSE /\ likes' = likes_with(user, video_id, TRUE)
                 /\ videos' = [videos EXCEPT ![video_id].likes = or_else(@, 0) + 1,
                                             ![video_id].dislikes = decremented(@)]
       ELSE /\ likes' = likes_with(user, video_id, TRUE)
            /\ videos' = [videos EXCEPT ![video_id].likes = or_else(@, 0) + 1]
    /\ UNCHANGED <<upload_dir, hls_dir, users, now, req, arg, ret>>

\* lines 895-916: the same with like and dislike exchanged
dislike_video(user, video_id) ==
    /\ video_id \in DOMAIN videos
    /\ IF <<user, video_id>> \in DOMAIN likes
       THEN IF ~likes[<<user, video_id>>]
            THEN /\ likes' = likes_without(user, video_id)
                 /\ videos' = [videos EXCEPT ![video_id].dislikes = decremented(@)]
            ELSE /\ likes' = likes_with(user, video_id, FALSE)
                 /\ videos' = [videos EXCEPT ![video_id].dislikes = or_else(@, 0) + 1,
                                             ![video_id].likes = decremented(@)]
       ELSE /\ likes' = likes_with(user, video_id, FALSE)
            /\ videos' = [videos EXCEPT ![video_id].dislikes = or_else(@, 0) + 1]
    /\ UNCHANGED <<upload_dir, hls_dir, users, now, req, arg, ret>>

\* the row of an upload of an earlier run that was transcoded into video_0
EarlierHlsVideo ==
    [EarlierVideo(2, VideoPart.filename) EXCEPT
        !.hls_manifest = rel_master(<<"video_", "0">>)]

\* a start after that upload: its file, its directory and its row are there
InitRows ==
    /\ upload_dir = [n \in {VideoPart.filename} |-> 0]
    /\ hls_dir = [d \in {<<"video_", "0">>} |-> [master |-> ENCODER_MASTER, renditions |-> {0}]]
    /\ videos = <<DemoVideo, EarlierHlsVideo>>
    /\ likes = <<>>
    /\ users = [id \in Users |-> IF id = 1 THEN DemoUser
                                  ELSE StoredUser("a@mitabo.dev", FALSE)]
    /\ now = 0
    /\ req = [r \in Reqs |-> IdleRequest]
    /\ arg = None
    /\ ret = <<>>

\* uploads of a video file, to_hls unticked, among views, likes and dislikes
NextRows ==
    \/ \E r \in Reqs : upload_post_begin(r, {f \in AcceptedForms : ~f.to_hls})
    \/ Store
    \/ \E video_id \in VideoIdInputs : watch(video_id)
    \/ \E user \in Users, video_id \in LikedIdInputs : like_video(user, video_id)
    \/ \E user \in Users, video_id \in LikedIdInputs : dislike_video(user, video_id)

SpecRows == InitRows /\ [][NextRows]_vars

----------------------------------------------------------------------------
(* like_video and dislike_video step by step: the two queries, then the     *)
(* changes made in the session and their commit. The sqlite3 driver opens   *)
(* a transaction at the first write, so the queries of one request and its  *)
(* commit are separate transactions, and the development server of line     *)
(* 1056 answers each request in its own thread                              *)

VoteHandlers == {"like_video", "dislike_video"}

\* what .first() gives a handler: None, written <<>>, or the Like row, written as
\* the one-element sequence of its is_like
NoRow == <<>>

\* the requests of a user that have been received and not answered
VotesInFlight(user) ==
    {q \in Reqs : req[q].pc \in {"existing", "vote"} /\ req[q].user = user}

\* lines 873 and 900: v = Video.query.get_or_404(video_id); the session keeps
\* the row as it was read. A user sends a request after the answer to the
\* previous one
vote_get_video(r, handler, user, video_id) ==
    /\ req[r].pc = "idle"
    /\ \A q \in Reqs : q < r => req[q].pc # "idle"
    /\ VotesInFlight(user) = {}
    /\ video_id \in DOMAIN videos
    /\ req' = [req EXCEPT ![r] = [pc |-> "existing", handler |-> handler,
                                  user |-> user, video_id |-> video_id,
                                  v |-> videos[video_id], existing |-> NoRow,
                                  response |-> None]]
    /\ UNCHANGED <<upload_dir, hls_dir, videos, likes, users, now, arg, ret>>

\* lines 875 and 902: existing = Like.query.filter_by(...).first(), None or
\* the row of the user for the video
vote_get_existing(r) ==
    /\ req[r].pc = "existing"
    /\ LET k == <<req[r].user, req[r].video_id>> IN
       req' = [req EXCEPT ![r].pc = "vote",
                          ![r].existing = IF k \in DOMAIN likes
                                          THEN <<likes[k]>> ELSE NoRow]
    /\ UNCHANGED <<upload_dir, hls_dir, videos, likes, users, now, arg, ret>>

\* the column a handler counts in, and the column of the opposite vote
own_counter(handler) == IF handler = "like_video" THEN "likes" ELSE "dislikes"
other_counter(handler) == IF handler = "like_video" THEN "dislikes" ELSE "likes"

\* lines 876-888 and 903-913: the row v as the handler leaves it in the session,
\* computed from the values the request read
voted(handler, v, existing) ==
    LET own == own_counter(handler)
        other == other_counter(handler)
    IN  IF existing = NoRow
        THEN [v EXCEPT ![own] = or_else(@, 0) + 1]
        ELSE IF existing[1] = (handler = "like_video")
        THEN [v EXCEPT ![own] = decremented(@)]
        ELSE [v EXCEPT ![own] = or_else(@, 0) + 1, ![other] = decremented(@)]

\* the likes table after the handler's add, delete or change of is_like
voted_likes(handler, user, video_id, existing) ==
    IF existing # NoRow /\ existing[1] = (handler = "like_video")
    THEN likes_without(user, video_id)
    ELSE likes_with(user, video_id, handler = "like_video")

\* lines 876-891 and 903-916: the changes in the session, then db.session.commit():
\* an UPDATE of the columns of v whose value the handler changed, to the values it
\* computed, and the INSERT, DELETE or UPDATE of the Like row; the answer carries
\* the counters read back after the commit
vote_commit(r) ==
    /\ req[r].pc = "vote"
    /\ LET q == req[r]
           v == voted(q.handler, q.v, q.existing)
       IN  /\ videos' = [videos EXCEPT
                           ![q.video_id].likes = IF v.likes # q.v.likes THEN v.likes ELSE @,
                           ![q.video_id].dislikes =
                               IF v.dislikes # q.v.dislikes THEN v.dislikes ELSE @]
           /\ likes' = voted_likes(q.handler, q.user, q.video_id, q.existing)
           /\ req' = [req EXCEPT ![r].pc = "done", ![r].v = v,
                                 ![r].response = [likes |-> videos'[q.video_id].likes,
                                                  dislikes |-> videos'[q.video_id].dislikes]]
    /\ UNCHANGED <<upload_dir, hls_dir, users, now, arg, ret>>

\* like_video and dislike_video requests of two users for one video
NextVotes ==
    \/ \E r \in Reqs, handler \in VoteHandlers, user \in Users, video_id \in LikedIdInputs :
         vote_get_video(r, handler, user, video_id)
    \/ \E r \in Reqs : vote_get_existing(r)
    \/ \E r \in Reqs : vote_commit(r)

SpecVotes == InitRows /\ [][NextVotes]_vars

----------------------------------------------------------------------------
(* The users table: register, login, ban_user and promote_user *)

MaxUsers == 2         \* rows of the users table at the start

MSG_BAD_LOGIN == "Identifiants invalides"
MSG_FIELDS_REQUIRED == "Tous les champs sont requis"
MSG_EMAIL_TAKEN == "Cet email est deja utilise"
MSG_ACCESS_DENIED == "Acces refuse"
MSG_BANNED == "Utilisateur banni"
MSG_BAN_ERROR == "Erreur lors du bannissement"
MSG_PROMOTED == "Utilisateur promu admin"
MSG_PROMOTE_ERROR == "Erreur lors de la promotion"

REDIRECT_HOME == <<"redirect", "home">>
REDIRECT_LOGIN == <<"redirect", "login">>
RENDER_AUTH == <<"200", "AUTH_BODY">>
ERROR_500 == <<"500", "Erreur">>

\* emails of the rows, by id
Emails == <<"demo@mitabo.dev", "a@mitabo.dev", "b@mitabo.dev", "c@mitabo.dev">>

\* the users table of the database file found at the start (line 210 keeps the
\* tables of an existing file, line 211 adds the demo user to an empty one):
\* the demo user and maybe others; is_admin is a column that no statement of
\* the application sets before there is an admin, so it is as the file has it
UserTables ==
    {[id \in 1..n |-> IF id = 1 THEN [DemoUser EXCEPT !.is_admin = a[id]]
                      ELSE StoredUser(Emails[id], a[id])] :
        n \in 1..MaxUsers, a \in [1..MaxUsers -> BOOLEAN]}

\* the user id in the session cookie of a request: 0 without a login, else the id
\* of a row of the start
SessionInputs == 0..MaxUsers

\* the user_id in the URL: a row of the start, which may be gone when the request
\* looks for it
UserIdInputs == 1..MaxUsers

\* the emails typed into the forms: none, one of the demo user, one of no user
EmailInputs == {"", "demo@mitabo.dev", "new@mitabo.dev"}

InitUsers ==
    /\ upload_dir = <<>>
    /\ hls_dir = <<>>
    /\ videos = <<DemoVideo>>
    /\ likes = <<>>
    /\ users \in UserTables
    /\ now = 0
    /\ req = [r \in Reqs |-> IdleRequest]
    /\ arg = None
    /\ ret = <<>>

\* the constraints of the users table (lines 50-53): username and email are NOT
\* NULL and unique
insertable(u) ==
    /\ u.username # None
    /\ u.email # ""
    /\ \A id \in DOMAIN users : users[id].username # u.username /\ users[id].email # u.email

\* the rows of the first table and one more under the next id
with_user(u) ==
    LET ids == DOMAIN users
        next == IF ids = {} THEN 1
                ELSE 1 + CHOOSE i \in ids : \A j \in ids : j <= i
    IN  [id \in ids \cup {next} |-> IF id = next THEN u ELSE users[id]]

\* the table without the row of user_id
without_user(user_id) == [id \in DOMAIN users \ {user_id} |-> users[id]]

\* a request answered at once
Answered(handler, flashes, response) ==
    [pc |-> "done", handler |-> handler, flashes |-> flashes, response |-> response]

\* lines 763-785, POST: the fields are read; with all of them and an email no row
\* has, User(email, display_name) is added and committed, without a username
register(r, email) ==
    /\ req[r].pc = "idle"
    /\ \A q \in Reqs : q < r => req[q].pc # "idle"
    /\ LET u == [email |-> email, username |-> None, is_admin |-> FALSE] IN
       IF email = ""
       THEN /\ req' = [req EXCEPT ![r] = Answered("register", <<MSG_FIELDS_REQUIRED>>, RENDER_AUTH)]
            /\ users' = users
       ELSE IF \E id \in DOMAIN users : users[id].email = email
       THEN /\ req' = [req EXCEPT ![r] = Answered("register", <<MSG_EMAIL_TAKEN>>, RENDER_AUTH)]
            /\ users' = users
       ELSE IF insertable(u)
       THEN /\ req' = [req EXCEPT ![r] = Answered("register", <<>>, REDIRECT_HOME)]
            /\ users' = with_user(u)
       ELSE /\ req' = [req EXCEPT ![r] = Answered("register", <<>>, ERROR_500)]
            /\ users' = users
    /\ UNCHANGED <<upload_dir, hls_dir, videos, likes, now, arg, ret>>

\* lines 745-761, POST: the row of the email is looked up and the password
\* compared; login_user puts the id of the row into the session
login(r, email, password_ok) ==
    /\ req[r].pc = "idle"
    /\ \A q \in Reqs : q < r => req[q].pc # "idle"
    /\ IF password_ok /\ \E id \in DOMAIN users : users[id].email = email
       THEN req' = [req EXCEPT ![r] = Answered("login", <<>>, REDIRECT_HOME)]
       ELSE req' = [req EXCEPT ![r] = Answered("login", <<MSG_BAD_LOGIN>>, RENDER_AUTH)]
    /\ UNCHANGED <<upload_dir, hls_dir, videos, likes, users, now, arg, ret>>

AdminHandlers == {"ban_user", "promote_user"}

\* lines 161-163 with 973 and 993: login_required loads current_user from the id
\* in the session; without a row for it the request is sent to the login page
load_user(r, handler, session, user_id) ==
    /\ req[r].pc = "idle"
    /\ \A q \in Reqs : q < r => req[q].pc # "idle"
    /\ IF session \in DOMAIN users
       THEN req' = [req EXCEPT ![r] = [pc |-> "admin_check", handler |-> handler,
                                       session |-> session, user_id |-> user_id,
                                       current_user |-> users[session],
                                       flashes |-> <<>>, response |-> None]]
       ELSE req' = [req EXCEPT ![r] = Answered(handler, <<>>, REDIRECT_LOGIN)]
    /\ UNCHANGED <<upload_dir, hls_dir, videos, likes, users, now, arg, ret>>

\* the handlers without their test of current_user.is_admin
admin_check_skipped(r) ==
    /\ req[r].pc = "admin_check"
    /\ req' = [req EXCEPT ![r].pc = "admin_apply"]
    /\ UNCHANGED <<upload_dir, hls_dir, videos, likes, users, now, arg, ret>>

\* lines 976-978 and 996-998: if not current_user.is_admin, flash and redirect
admin_check(r) ==
    /\ req[r].pc = "admin_check"
    /\ IF ~req[r].current_user.is_admin
       THEN req' = [req EXCEPT ![r].pc = "done",
                               ![r].flashes = Append(@, MSG_ACCESS_DENIED),
                               ![r].response = REDIRECT_HOME]
       ELSE req' = [req EXCEPT ![r].pc = "admin_apply"]
    /\ UNCHANGED <<upload_dir, hls_dir, videos, likes, users, now, arg, ret>>

\* lines 980-990: get_or_404, whose NotFound the except clause of line 987 turns
\* into a flash; the row of another user is deleted and the delete committed. The
\* commit fails for a user with comments: the Comment.user relationship of line 117
\* sets their user_id to NULL, which the column of line 112 refuses
ban_user_delete(r, has_comments) ==
    /\ req[r].pc = "admin_apply"
    /\ req[r].handler = "ban_user"
    /\ LET user_id == req[r].user_id IN
       IF user_id \notin DOMAIN users \/ (user_id # req[r].session /\ has_comments)
       THEN /\ users' = users
            /\ req' = [req EXCEPT ![r].pc = "done",
                                  ![r].flashes = Append(@, MSG_BAN_ERROR),
                                  ![r].response = REDIRECT_HOME]
       ELSE IF user_id # req[r].session
       THEN /\ users' = without_user(user_id)
            /\ req' = [req EXCEPT ![r].pc = "done",
                                  ![r].flashes = Append(@, MSG_BANNED),
                                  ![r].response = REDIRECT_HOME]
       ELSE /\ users' = users
            /\ req' = [req EXCEPT ![r].pc = "done", ![r].response = REDIRECT_HOME]
    /\ UNCHANGED <<upload_dir, hls_dir, videos, likes, now, arg, ret>>

\* lines 1000-1009: get_or_404, user.is_admin = True, commit
promote_user_set(r) ==
    /\ req[r].pc = "admin_apply"
    /\ req[r].handler = "promote_user"
    /\ LET user_id == req[r].user_id IN
       IF user_id \notin DOMAIN users
       THEN /\ users' = users
            /\ req' = [req EXCEPT ![r].pc = "done",
                                  ![r].flashes = Append(@, MSG_PROMOTE_ERROR),
                                  ![r].response = REDIRECT_HOME]
       ELSE /\ users' = [users EXCEPT ![user_id].is_admin = TRUE]
            /\ req' = [req EXCEPT ![r].pc = "done",
                                  ![r].flashes = Append(@, MSG_PROMOTED),
                                  ![r].response = REDIRECT_HOME]
    /\ UNCHANGED <<upload_dir, hls_dir, videos, likes, now, arg, ret>>

\* registrations, logins and the two admin routes, from any session
NextUsers ==
    \/ \E r \in Reqs, email \in EmailInputs : register(r, email)
    \/ \E r \in Reqs, email \in EmailInputs, password_ok \in BOOLEAN :
         login(r, email, password_ok)
    \/ \E r \in Reqs, handler \in AdminHandlers, session \in SessionInputs,
          user_id \in UserIdInputs : load_user(r, handler, session, user_id)
    \/ \E r \in Reqs : admin_check(r)
    \/ \E r \in Reqs, has_comments \in BOOLEAN : ban_user_delete(r, has_comments)
    \/ \E r \in Reqs : promote_user_set(r)

SpecUsers == InitUsers /\ [][NextUsers]_vars

----------------------------------------------------------------------------
(* allowed_file and Video.source_url on their own *)

\* characters of the filenames tried: enough for ogg, mov and m4v in both cases
NameChars == {".", "o", "g", "G", "m", "v", "4"}

\* every filename over NameChars of at most MaxNameLen characters
NameInputs == UNION {[1..k -> NameChars] : k \in 0..MaxNameLen}

InitAllowed ==
    /\ ProgramInit({{}})
    /\ arg \in NameInputs
    /\ ret = <<>>

\* a caller evaluates allowed_file(arg)
call_allowed_file ==
    /\ ret = <<>>
    /\ ret' = <<allowed_file(arg)>>
    /\ UNCHANGED <<upload_dir, hls_dir, videos, likes, users, now, req, arg>>

SpecAllowed == InitAllowed /\ [][call_allowed_file]_vars

\* values of the three columns source_url reads: NULL, "", and texts
ManifestInputs == {None, <<>>, rel_master(<<"video_", "0">>), rel_master(<<"video_", "1">>)}
FilenameInputs == {None, <<>>, <<"a", ".", "m", "p", "4">>, <<"a", " ", "b", ".", "m", "p", "4">>,
                   <<E_ACUTE, ".", "m", "p", "4">>}
ExternalUrlInputs == {None, <<>>, DemoVideo.external_url, <<"https://example.org/", "v", " ", "1">>}

InitResolve ==
    /\ ProgramInit({{}})
    /\ arg \in [id : {1}, by : {0}, hls_manifest : ManifestInputs,
                filename : FilenameInputs, external_url : ExternalUrlInputs]
    /\ ret = <<>>

\* a template or api_videos reads arg.source_url, a first and a second time
call_source_url ==
    /\ Len(ret) < 2
    /\ ret' = Append(ret, source_url(arg))
    /\ UNCHANGED <<upload_dir, hls_dir, videos, likes, users, now, req, arg>>

SpecResolve == InitResolve /\ [][call_source_url]_vars

----------------------------------------------------------------------------
(* Properties of upload_post with transcoding (Spec) *)

\* the rows of the videos table that request r committed
RowsBy(r) == {i \in DOMAIN videos : videos[i].by = r}

\* request r was accepted by the two checks of lines 679-684
Accepted(r) == req[r].filename # None

\* request r has left line 708
PastHlsCheck(r) ==
    Accepted(r) /\ req[r].pc \in {"encode", "manifest", "synthesize", "commit", "done"}

\* C1: an upload whose transcode step failed, by a non-zero exit of the encoder or by
\* any other exception, still ends with exactly one committed row, whose hls_manifest
\* is unset and whose filename is the name the file was stored under; it answers
\* with the redirect to the new video, not with the upload form
C1_TranscodeFailureStillCommits ==
    \A r \in Reqs :
        req[r].transcode_failed =>
            /\ req[r].pc \in {"commit", "done"}
            /\ req[r].pc = "done" =>
                 /\ Cardinality(RowsBy(r)) = 1
                 /\ \A i \in RowsBy(r) :
                      /\ videos[i].hls_manifest = None
                      /\ videos[i].filename = req[r].final
                      /\ videos[i].filename \in DOMAIN upload_dir
                      /\ req[r].response = redirect_watch(videos[i].id)

\* C1 witness: the encoder ran, exited non-zero, and the upload has finished
C1_Witness ==
    \E r \in Reqs :
        /\ req[r].pc = "done" /\ req[r].to_hls /\ req[r].encoder_found
        /\ req[r].transcode_failed /\ req[r].encoder_runs = 1
        /\ RowsBy(r) # {}

\* C7: no two uploads transcode into the same subdirectory of HLS_DIR, and no two
\* rows have the same hls_manifest
C7_DistinctTargetDirs ==
    /\ \A r, q \in Reqs :
         r # q /\ req[r].target_dir # None /\ req[q].target_dir # None
             => req[r].target_dir # req[q].target_dir
    /\ \A i, j \in DOMAIN videos :
         i # j /\ videos[i].hls_manifest # None => videos[i].hls_manifest # videos[j].hls_manifest

Uris(manifest) ==
    LET IsUri(line) == line[1] \notin {"#EXTM3U", "#EXT-X-VERSION:", "#EXT-X-STREAM-INF:"}
    IN  SelectSeq(manifest, IsUri)

\* master.m3u8 of directory d before and after a step; None when there is none
MasterOf(dirs, d) == IF d \in DOMAIN dirs THEN dirs[d].master ELSE None

\* C14: when transcode_to_hls has returned a path, master.m3u8 is in the target
\* directory; a master.m3u8 that transcode_to_hls wrote references exactly
\* v0/index.m3u8 and v1/index.m3u8, and it is written only over no file: a
\* master.m3u8 that the encoder produced is never replaced by the written one
C14_MasterPresentNeverClobbered ==
    /\ [](\A r \in Saved :
             req[r].v.hls_manifest # None =>
                 MasterOf(hls_dir, req[r].target_dir) # None)
    /\ [](\A d \in DOMAIN hls_dir :
             hls_dir[d].master \notin {None, ENCODER_MASTER} =>
                 Uris(hls_dir[d].master) = << <<"v0/index.m3u8">>, <<"v1/index.m3u8">> >>)
    /\ [][\A d \in DOMAIN hls_dir :
             hls_dir[d].master = ENCODER_MASTER => hls_dir'[d].master = ENCODER_MASTER]_vars

\* C15: a transcode whose encoder exited non-zero or could not be started raises:
\* upload_post is in its except clause, no path was returned, and the step wrote
\* no master.m3u8 (the target directory holds the one it held, or none); only an
\* encoder that exited zero leads to the test of line 196
C15_EncoderFailureRaises ==
    /\ [](\A r \in Reqs :
             req[r].transcode_failed =>
                 /\ req[r].pc \in {"commit", "done"}
                 /\ req[r].v.hls_manifest = None)
    /\ [][\A r \in Reqs :
             req[r].pc = "encode" =>
                 /\ req'[r].pc \in {"encode", "manifest", "commit"}
                 /\ req'[r].pc = "manifest" =>
                      /\ ~req'[r].transcode_failed
                      /\ hls_dir'[req[r].target_dir].renditions = {r}
                 /\ req'[r].pc = "commit" =>
                      /\ req'[r].transcode_failed
                      /\ req'[r].flashes = Append(req[r].flashes, MSG_TRANSCODE_FAILED)
                      /\ MasterOf(hls_dir', req[r].target_dir)
                             = MasterOf(hls_dir, req[r].target_dir)]_vars

\* C15 witness: the encoder ran and exited non-zero, and the target directory it
\* was given is there without master.m3u8
C15_Witness ==
    \E r \in Reqs :
        /\ req[r].transcode_failed /\ req[r].encoder_runs = 1
        /\ req[r].target_dir \in DOMAIN hls_dir
        /\ hls_dir[req[r].target_dir].master = None

\* the records that hold a manifest path: the rows, and the records of the
\* requests to which transcode_to_hls has returned one
WithManifest ==
    {videos[i] : i \in {j \in DOMAIN videos : videos[j].hls_manifest # None}}
    \cup {req[r].v : r \in {q \in Saved : req[q].v.hls_manifest # None}}

\* C19: a manifest path that transcode_to_hls returned is <subdirectory>/master.m3u8:
\* relative, one subdirectory of HLS_DIR, one forward slash, no backslash; the
\* subdirectory is under HLS_DIR and holds master.m3u8; and the URL that
\* source_url gives for the record, sent to the hls route, is answered with that
\* master.m3u8
C19_ManifestPathResolves ==
    \A v \in WithManifest :
        LET m == v.hls_manifest
            n == Len(m)
        IN  /\ n >= 3
            /\ m[n] = "master.m3u8" /\ m[n - 1] = "/"
            /\ \A k \in 1..(n - 2) : m[k] \notin {"/", "\\", ".", ".."}
            /\ SubSeq(m, 1, n - 2) \in DOMAIN hls_dir
            /\ hls_dir[SubSeq(m, 1, n - 2)].master # None
            /\ source_url(v)[1] = "/hls/"
            /\ hls(hls_dir, url_unquote(Tail(source_url(v))))
                  = hls_dir[SubSeq(m, 1, n - 2)].master
            /\ v.by # 0 => SubSeq(m, 1, n - 2) = req[v.by].target_dir

\* C19 witness: a row whose manifest is video_1/master.m3u8, written by
\* transcode_to_hls, which the hls route serves
C19_Witness ==
    \E i \in DOMAIN videos :
        /\ videos[i].hls_manifest = <<"video_", "1", "/", "master.m3u8">>
        /\ hls(hls_dir, videos[i].hls_manifest) = SYNTHESIZED_MASTER

\* the file parts the claim lists: no file, an empty filename, a filename that
\* allowed_file rejects
NoFileGiven(f) == ~f.present \/ f.filename = <<>>
Rejected(f) == NoFileGiven(f) \/ ~allowed_file(f.filename)

\* C9: an upload with no file, an empty filename or a rejected filename ends at once
\* with a rejection message and the upload form, the no-file message taking
\* precedence; it stores no file, makes no directory under HLS_DIR, never runs the
\* encoder and commits no row
C9_RejectionHasNoSideEffect ==
    \A r \in Reqs :
        req[r].pc # "idle" /\ Rejected(req[r].file) =>
            /\ req[r].pc = "done"
            /\ req[r].flashes = <<IF NoFileGiven(req[r].file) THEN MSG_NO_FILE
                                  ELSE MSG_BAD_EXTENSION>>
            /\ req[r].response = REDIRECT_UPLOAD_FORM
            /\ RowsBy(r) = {}
            /\ \A n \in DOMAIN upload_dir : upload_dir[n] # r
            /\ req[r].final = None
            /\ req[r].target_dir = None
            /\ \A d \in DOMAIN hls_dir : r \notin hls_dir[d].renditions
            /\ req[r].encoder_runs = 0

\* C9 witness: a rejected extension with to_hls ticked, while another upload is stored
C9_Witness ==
    \E r, q \in Reqs :
        /\ req[r].pc = "done" /\ req[r].to_hls
        /\ req[r].file.present /\ req[r].file.filename = <<"a", ".", "e", "x", "e">>
        /\ req[q].pc = "done" /\ RowsBy(q) # {}

\* C10: transcoding is attempted exactly when to_hls was submitted and the encoder
\* was found; with to_hls set and the encoder absent the encoder never runs, nothing
\* is flashed, and the upload commits a row with hls_manifest unset and filename set
C10_AttemptIffFlagAndEncoder ==
    \A r \in Reqs :
        PastHlsCheck(r) =>
            /\ req[r].target_dir # None <=> (req[r].to_hls /\ req[r].encoder_found)
            /\ req[r].encoder_runs > 0 => req[r].target_dir # None
            /\ req[r].transcode_failed => req[r].target_dir # None
            /\ req[r].pc \in {"manifest", "synthesize"} => req[r].target_dir # None
            /\ req[r].to_hls /\ ~req[r].encoder_found =>
                 /\ req[r].encoder_runs = 0
                 /\ req[r].flashes = <<>>
                 /\ req[r].pc = "done" =>
                      /\ Cardinality(RowsBy(r)) = 1
                      /\ \A i \in RowsBy(r) : /\ videos[i].hls_manifest = None
                                              /\ videos[i].filename = req[r].final
                                              /\ req[r].response = redirect_watch(i)

\* C10 witness: to_hls ticked, encoder absent, upload committed
C10_Witness ==
    \E r \in Reqs :
        /\ req[r].pc = "done" /\ Accepted(r)
        /\ req[r].to_hls /\ ~req[r].encoder_found
        /\ RowsBy(r) # {}

----------------------------------------------------------------------------
(* Properties of upload_post when a write may fail (SpecFaults) *)

\* request r is between its arrival and its answer
InFlight(r) == req[r].pc \notin {"idle", "done"}

C12_FailedSaveFailsUpload ==
    \A r \in Reqs :
        req[r].save_failed =>
            /\ req[r].pc = "done"
            /\ req[r].flashes = <<MSG_UPLOAD_ERROR>>
            /\ req[r].response = REDIRECT_UPLOAD_FORM
            /\ RowsBy(r) = {}
            /\ req[r].v = None
            /\ ~req[r].encoder_found /\ req[r].target_dir = None
            /\ req[r].encoder_runs = 0 /\ ~req[r].transcode_failed
            /\ \A n \in DOMAIN upload_dir : upload_dir[n] # r

\* C12 witness: an upload with to_hls ticked whose save failed during the copy,
\* beside an upload that is committed
C12_Witness ==
    \E r, q \in Reqs :
        /\ req[r].save_failed /\ req[r].to_hls
        /\ \E n \in DOMAIN upload_dir : upload_dir[n] = 0 - r
        /\ req[q].pc = "done" /\ RowsBy(q) # {}

\* C13: an upload whose commit raised has no row, then and ever after, and
\* answers with the error message and the upload form; the file it stored stays
\* in UPLOAD_DIR, and when its transcoding had succeeded the target directory
\* stays under HLS_DIR with its master.m3u8 and its renditions
C13_FailedCommitLeavesFiles ==
    \A r \in Reqs :
        req[r].commit_failed =>
            /\ req[r].pc = "done"
            /\ RowsBy(r) = {}
            /\ req[r].response = REDIRECT_UPLOAD_FORM
            /\ req[r].flashes # <<>> /\ req[r].flashes[Len(req[r].flashes)] = MSG_UPLOAD_ERROR
            /\ req[r].final \in DOMAIN upload_dir
            /\ req[r].v.hls_manifest # None =>
                 /\ req[r].target_dir \in DOMAIN hls_dir
                 /\ hls_dir[req[r].target_dir].master # None
                 /\ hls_dir[req[r].target_dir].renditions # {}

\* C13 witness: an upload whose transcoding succeeded and whose commit failed,
\* after which another upload was committed
C13_Witness ==
    \E r, q \in Reqs :
        /\ req[r].commit_failed /\ req[r].v.hls_manifest # None
        /\ upload_dir[req[r].final] = r
        /\ q > r /\ req[q].pc = "done" /\ RowsBy(q) # {}

----------------------------------------------------------------------------
(* Properties of the record's title and category (SpecFields) *)

\* a submitted title is blank: absent, empty, or whitespace only
Blank(field) ==
    ~field.present \/ \A k \in 1..Len(field.value) : field.value[k] \in {" ", "\t", "\n"}

\* C16: the row of an upload whose submitted title was blank has the default
\* title, and no row of an upload has an empty title
C16_BlankTitleDefaults ==
    \A i \in DOMAIN videos :
        videos[i].by # 0 =>
            /\ Blank(req[videos[i].by].form_title) =>
                 videos[i].title = <<"S", "a", "n", "s", " ", "t", "i", "t", "r", "e">>
            /\ videos[i].title # <<>>

\* C17: every row of an upload has one of the five categories: the submitted
\* one when it is one of the five, tendance when it is absent, empty or any
\* other text
C17_CategoryInFixedSet ==
    \A i \in DOMAIN videos :
        videos[i].by # 0 =>
            LET submitted == req[videos[i].by].form_category
                five == {"tendance", "jeux", "musique", "film", "sport"}
            IN  /\ videos[i].category \in five
                /\ videos[i].category =
                     IF submitted.present /\ submitted.value \in five
                     THEN submitted.value ELSE "tendance"

\* C17 witness: one row keeps the submitted jeux, another submitted as Jeux or
\* as autre has tendance
C17_Witness ==
    \E i, j \in DOMAIN videos :
        /\ videos[i].by # 0 /\ videos[j].by # 0
        /\ req[videos[i].by].form_category.value = "jeux" /\ videos[i].category = "jeux"
        /\ req[videos[j].by].form_category.value \in {"Jeux", "autre"}
        /\ videos[j].category = "tendance"

----------------------------------------------------------------------------
(* Properties of the rows once inserted (SpecRows) *)

----------------------------------------------------------------------------
(* Properties of the name loop (SpecNames) *)

\* the files UPLOAD_DIR held when the application started
InitialFiles == {n \in DOMAIN upload_dir : upload_dir[n] = 0}

\* the uploads stored so far ran one after another: none saw UPLOAD_DIR change
\* between its first test of the while condition and its save
OneAfterAnother == \A q \in Saved : req[q].undisturbed

\* the name "base-k.ext" of the claims
Dashed(base, k, ext) == base \o <<"-">> \o str(k) \o ext

\* the least k >= 1 for which base-k.ext is not in files
LeastFree(base, ext, files) ==
    CHOOSE k \in 1..(Cardinality(files) + 1) :
        /\ Dashed(base, k, ext) \notin files
        /\ \A j \in 1..(k - 1) : Dashed(base, j, ext) \in files

\* C2: no two rows have the same stored filename, and no upload has written over a
\* file that was already there
C2_UniqueStoredNames ==
    /\ \A i, j \in DOMAIN videos :
         i # j /\ videos[i].filename # None => videos[i].filename # videos[j].filename
    /\ \A r \in Reqs : ~req[r].overwrote

\* C5 as stated: uploads of one name that run one after another, into a directory
\* that held no file of that name at the start, store the n-th as base.ext for n = 1
\* and as base-(n-1).ext for n > 1
C5_NthUploadNamed ==
    \A r \in Saved :
        OneAfterAnother /\ req[r].filename \notin InitialFiles =>
            req[r].final = IF req[r].nth = 1 THEN req[r].filename
                           ELSE Dashed(req[r].base, req[r].nth - 1, req[r].ext)

\* C5 amended: the same, for a directory that at the start held neither base.ext nor
\* any base-k.ext; and in every directory an upload that saw no change between its
\* first test and its save is stored as base.ext when that is free, else as base-k.ext
\* for the least k >= 1 that is free
C5_LeastFreeSuffix ==
    \A r \in Saved :
        /\ req[r].undisturbed =>
             req[r].final = IF req[r].filename \notin req[r].first_seen THEN req[r].filename
                            ELSE Dashed(req[r].base,
                                          LeastFree(req[r].base, req[r].ext, req[r].first_seen),
                                          req[r].ext)
        /\ (/\ OneAfterAnother
            /\ req[r].filename \notin InitialFiles
            /\ \A k \in 1..(MaxReqs + 1) :
                 Dashed(req[r].base, k, req[r].ext) \notin InitialFiles) =>
             req[r].final = IF req[r].nth = 1 THEN req[r].filename
                            ELSE Dashed(req[r].base, req[r].nth - 1, req[r].ext)

\* C5 witness: the second upload of a.mp4 into a directory that started empty,
\* after the first was stored, is stored as a-1.mp4
C5_Witness ==
    \E r \in Saved :
        /\ OneAfterAnother /\ InitialFiles = {}
        /\ req[r].nth = 2
        /\ req[r].filename = <<"a", ".", "m", "p", "4">>
        /\ req[r].final = <<"a", "-", "1", ".", "m", "p", "4">>

\* request r has left the while loop of lines 690-692
PastLoop(r) == Accepted(r) /\ req[r].pc # "probe"

\* C6: when the loop exits, the final name is not in UPLOAD_DIR; and the final name
\* is the sanitized name itself whenever that name was not in UPLOAD_DIR when the
\* loop first tested it
C6_ReservedNameIsFree ==
    /\ [][\A r \in Reqs :
             req[r].pc = "probe" /\ req'[r].pc = "save"
                 => req'[r].final \notin DOMAIN upload_dir']_vars
    /\ [](\A r \in Reqs :
             PastLoop(r) /\ req[r].filename \notin req[r].first_seen
                 => req[r].final = req[r].filename /\ req[r].probes = 1)

\* C6 witness: one upload keeps its name in a directory that holds another file,
\* and another leaves the loop with a suffixed name that is free
C6_Witness ==
    \E r, q \in Reqs :
        /\ PastLoop(r) /\ req[r].first_seen # {} /\ req[r].final = req[r].filename
        /\ req[q].pc = "save" /\ req[q].probes >= 2
        /\ req[q].final # req[q].filename /\ req[q].final \notin DOMAIN upload_dir

----------------------------------------------------------------------------
(* Properties of Video.source_url (SpecResolve) and allowed_file (SpecAllowed) *)

\* a column is set: it holds a non-empty text
IsSet(x) == x # None /\ x # <<>>

\* C3: source_url answers by strict priority: the /hls/ URL of hls_manifest when
\* that is set, whatever else is set; else the /media/ URL of filename when that is
\* set; else external_url as it is when that is set; else the empty text; it answers
\* for every row
C3_ResolverPriority ==
    ret # <<>> =>
        LET u == ret[1] IN
        /\ IsSet(arg.hls_manifest) =>
             /\ u[1] = "/hls/"
             /\ Tail(u) = url_quote(arg.hls_manifest)
        /\ ~IsSet(arg.hls_manifest) /\ IsSet(arg.filename) =>
             /\ u[1] = "/media/"
             /\ Tail(u) = url_quote(arg.filename)
        /\ ~IsSet(arg.hls_manifest) /\ ~IsSet(arg.filename) /\ IsSet(arg.external_url) =>
             u = arg.external_url
        /\ ~IsSet(arg.hls_manifest) /\ ~IsSet(arg.filename) /\ ~IsSet(arg.external_url) =>
             u = <<>>

\* C3 witness: all three columns set, and the answer is the manifest's /hls/ URL
C3_Witness ==
    /\ ret # <<>>
    /\ IsSet(arg.hls_manifest) /\ IsSet(arg.filename) /\ IsSet(arg.external_url)
    /\ ret[1] = <<"/hls/", "video_", "1", "/", "master.m3u8">>

SuffixAllowed(name) ==
    \E i \in 1..Len(name) :
        /\ name[i] = "."
        /\ \A j \in (i + 1)..Len(name) : name[j] # "."
        /\ lower(SubSeq(name, i + 1, Len(name))) \in
             {<<"m", "p", "4">>, <<"w", "e", "b", "m">>, <<"o", "g", "g">>,
              <<"m", "o", "v">>, <<"m", "4", "v">>}

\* C4: allowed_file accepts a filename exactly when it has a dot and the text after
\* its last dot, lowercased, is one of mp4, webm, ogg, mov, m4v; it rejects a
\* filename without a dot and one that ends with a dot
C4_ExtensionGate ==
    ret # <<>> =>
        /\ ret[1] <=> SuffixAllowed(arg)
        /\ (\A i \in 1..Len(arg) : arg[i] # ".") => ~ret[1]
        /\ (arg # <<>> /\ arg[Len(arg)] = ".") => ~ret[1]

\* C4 witness: a name with two dots and an upper-case letter in its suffix is accepted
C4_Witness ==
    /\ ret = <<TRUE>>
    /\ arg = <<".", ".", "o", "G", "g">>

----------------------------------------------------------------------------
(* Properties of the stored names (SpecExtensions) *)

\* C21: every file name that upload_post has stored in UPLOAD_DIR, and every
\* filename of a row it committed, ends with a dot and an extension of the
\* allow-list (mp4, webm, ogg, mov, m4v, in either case)
C21_StoredNameKeepsExtension ==
    /\ \A n \in DOMAIN upload_dir : SuffixAllowed(n)
    /\ \A i \in DOMAIN videos :
         videos[i].filename # None => SuffixAllowed(videos[i].filename)

----------------------------------------------------------------------------
(* Properties of the counters of a row (SpecVotes) *)

\* the Like rows of a video with the given is_like
LikeRows(video_id, is_like) ==
    {k \in DOMAIN likes : k[2] = video_id /\ likes[k] = is_like}

\* C22: whatever like_video and dislike_video requests have run, also those of
\* different users whose queries and commits interleave, the likes counter of every
\* video is the number of its Like rows with is_like true, its dislikes counter the
\* number with is_like false, and neither counter is negative (the likes table is
\* keyed by user and video, so a pair has one row at most)
C22_CountersMatchLikeRows ==
    \A id \in DOMAIN videos :
        /\ videos[id].likes = Cardinality(LikeRows(id, TRUE))
        /\ videos[id].dislikes = Cardinality(LikeRows(id, FALSE))
        /\ videos[id].likes >= 0 /\ videos[id].dislikes >= 0

----------------------------------------------------------------------------
(* Properties of the admin routes (SpecUsers) *)

\* the ban_user and promote_user requests past login_required and not answered
AdminInFlight == {r \in Reqs : req[r].pc \in {"admin_check", "admin_apply"}}

\* no row of the users table has is_admin set, and no request in flight was
\* loaded from a row that had it set
NoAdmin ==
    /\ \A id \in DOMAIN users : ~users[id].is_admin
    /\ \A r \in AdminInFlight : ~req[r].current_user.is_admin

\* C23: a step of a ban_user or promote_user request whose current_user has
\* is_admin false leaves the users table as it is; ban_user does not delete the row
\* of the user who sent it; and from a state without an admin (neither a row with
\* is_admin nor a request already under way for one), every step of register,
\* login, ban_user and promote_user leads to a state without an admin
C23_AdminOnly ==
    [][/\ \A r \in AdminInFlight :
            req'[r] # req[r] /\ ~req[r].current_user.is_admin => users' = users
       /\ \A r \in AdminInFlight :
            req'[r] # req[r] /\ req[r].handler = "ban_user" /\ req[r].session \in DOMAIN users
                => req[r].session \in DOMAIN users'
       /\ NoAdmin => NoAdmin']_vars

\* C23 witness: a user without is_admin asked to ban, or to promote, another user;
\* the request was refused and both rows are as they were
C23_Witness ==
    \E r \in Reqs :
        /\ req[r].pc = "done"
        /\ req[r].handler \in AdminHandlers
        /\ req[r].flashes = <<MSG_ACCESS_DENIED>>
        /\ req[r].user_id # req[r].session
        /\ req[r].user_id \in DOMAIN users
        /\ req[r].session \in DOMAIN users
        /\ ~users[req[r].session].is_admin

====
